---- MODULE Spec2Model ----
(***************************************************************************)
(* Model of light-vst: the BulbController of bulb-core (set_color and the  *)
(* reconnect-and-retry of send_commands), the plugin bridge of bulb-vst    *)
(* (process() feeding a bounded crossbeam channel that one worker thread   *)
(* drains) and the MIDI bridge of bulb-app (a MIDI callback feeding an     *)
(* unbounded tokio channel that one spawned task drains).                  *)
(*                                                                         *)
(* The two binaries are two deployments of the same controller: `bridge`   *)
(* is chosen in Init and never changes.                                    *)
(*                                                                         *)
(* The transport (TuyaDevice) is an external crate.  Every call to it is a *)
(* step whose outcome `ok` is chosen by the environment; `session` is the  *)
(* lifecycle state of the handle the controller owns: a successful connect *)
(* leaves it Connected, a failed connect or a failed write leaves it       *)
(* Disconnected, and a write can only succeed on a Connected handle.       *)
(***************************************************************************)
EXTENDS Integers, Sequences, FiniteSets, TLC

\* ---------------------------------------------------------------- bounds
\* Capacity of the plugin's channel.  The program uses bounded(100)
\* (bulb-vst/src/lib.rs:33); the model scales it down.
Capacity == 2
\* Number of producer calls (process() calls, MIDI callbacks) in a run.
MaxCalls == 4

\* ------------------------------------------------------ program constants
U16_MAX == 65535
HUE_SCALE == 360
SV_SCALE == 1000
MIDI_DIVISOR == 127
INIT_HUE == 120
APP_SATURATION == 1000
APP_BRIGHTNESS == 1000
CC_STATUS == 176
MOD_WHEEL == 1
HUE_MAX == 360
SV_MAX == 1000
MIDI_MAX == 127
U8_MAX == 255

\* ----------------------------------------------------------------- inputs
\* Host parameter values, in hundredths of the 0.0 ..= 1.0 range.
HueParams == {0, 50}
SaturationParams == {100}
BrightnessParams == {100}
\* Raw MIDI messages <<status, data1, data2>> delivered to the callback.
MidiStatuses == {CC_STATUS, 144}
MidiControllers == {MOD_WHEEL, 7}
MidiValues == {0, 64}

\* Arguments of set_color for the codec on its own: every documented hue,
\* saturation and brightness at the digit boundaries of the range, and
\* values past the documented range.
CodecHues == (0..HUE_MAX) \cup {HUE_MAX + 1, U16_MAX}
CodecSV == {0, 1, 15, 16, 255, 256, SV_MAX - 1, SV_MAX, SV_MAX + 1, U16_MAX}
\* Arguments of midi_to_hue: every u8.
CodecMidi == 0..U8_MAX

\* ------------------------------------------------------------ Color codec
HexChars == <<"0", "1", "2", "3", "4", "5", "6", "7",
              "8", "9", "a", "b", "c", "d", "e", "f">>

RECURSIVE ToHex(_)
\* {:x}: the hexadecimal digits of n, most significant first, no padding.
ToHex(n) ==
    IF n < 16 THEN <<HexChars[n + 1]>>
    ELSE ToHex(n \div 16) \o <<HexChars[(n % 16) + 1]>>

RECURSIVE ZeroPad(_, _)
\* {:0w}: pad on the left with '0' up to a minimum width of w.
ZeroPad(s, w) == IF Len(s) >= w THEN s ELSE ZeroPad(<<"0">> \o s, w)

\* Variant: {:x} instead of {:04x}.
hsv_to_hex_unpadded(h, s, v) == ToHex(h) \o ToHex(s) \o ToHex(v)

\* Variant: brightness written before saturation.
hsv_to_hex_swapped(h, s, v) ==
    ZeroPad(ToHex(h), 4) \o ZeroPad(ToHex(v), 4) \o ZeroPad(ToHex(s), 4)

hsv_to_hex(h, s, v) ==
    ZeroPad(ToHex(h), 4) \o ZeroPad(ToHex(s), 4) \o ZeroPad(ToHex(v), 4)

\* The property map set_color builds: "20" -> true, "28" -> colour string.
set_color_dps(h, s, v, immediate) ==
    LET immediate_num == IF immediate THEN 0 ELSE 1
    IN  [p20 |-> TRUE,
         p28 |-> ToHex(immediate_num) \o hsv_to_hex(h, s, v)
                 \o <<"0", "0", "0", "0", "0", "0", "0", "0">>]

\* Variant: the product is taken in u8, without the `as u16`.
midi_to_hue_u8(midi_value) ==
    ((midi_value * HUE_SCALE) % (U8_MAX + 1)) \div MIDI_DIVISOR

\* The u16 product wraps where the build does not trap the overflow.
midi_to_hue(midi_value) == ((midi_value * HUE_SCALE) % (U16_MAX + 1)) \div MIDI_DIVISOR

\* (param * scale) as u16, for a parameter given in hundredths.
ParamToU16(param, scale) == (param * scale) \div 100

\* ------------------------------------------------------------------ state
VARIABLES
    bridge,           \* "vst" (bulb-vst plugin) or "app" (bulb-app)
    queue,            \* the channel between producer and worker
    last_hue, last_saturation, last_brightness,   \* BulbVst fields
    ppc,              \* process(): "idle", or "send" while blocked in send()
    pending,          \* the command a blocked send() is holding
    ncalls,           \* producer calls so far
    command_tx,       \* the plugin's Sender: "alive" or "dropped"
    appliedAtDrop,    \* history: Len(applied) when the Sender was dropped
    wpc,              \* owner of the controller: "connect", "init",
                      \* "recv", "set_color", "exited"
    cpc,              \* send_commands: "idle", "write1", "connect", "write2"
    cur,              \* <<h, s, v, immediate>> of the set_color in progress
    session,          \* "Disconnected" or "Connected"
    result,           \* what the last set_color returned
    startup,          \* outcome of the startup connect()
    writes,           \* transport writes of the current/last send_commands
    connects,         \* reconnects of the current/last send_commands
    inflight,         \* set_color calls that have started and not returned
    enq,              \* history: items accepted by the channel, in order
    applied,          \* history: commands the worker passed to set_color
    lastApplied,      \* history: triple of the last set_color that succeeded
    codec_in,         \* argument of the codec function under test
    codec_out         \* what that function produced

vars == <<bridge, queue, last_hue, last_saturation, last_brightness, ppc,
          pending, ncalls, wpc, cpc, cur, session, result, startup, writes,
          connects, inflight, enq, applied, lastApplied, command_tx,
          appliedAtDrop, codec_in, codec_out>>

producerVars == <<last_hue, last_saturation, last_brightness, ppc, pending,
                  ncalls, command_tx, appliedAtDrop>>
\* What no step of either bridge changes.
staticVars == <<bridge, codec_in, codec_out>>
controllerVars == <<wpc, cpc, cur, session, result, startup, writes,
                    connects, inflight, applied, lastApplied>>

\* Variant: the last_* fields start at zero.
SentinelZero == <<0, 0, 0>>

\* The initial last_hue, last_saturation, last_brightness of BulbVst.
Sentinel == <<U16_MAX, U16_MAX, U16_MAX>>
NoCommand == <<0, 0, 0, FALSE>>
NoInput == [kind |-> "none", h |-> 0, s |-> 0, v |-> 0, immediate |-> FALSE,
            midi_value |-> 0]
NoOutput == [status |-> "none", text |-> <<>>, hue |-> 0]

Triple(cmd) == <<cmd[1], cmd[2], cmd[3]>>

\* The bridge right after construction, nothing enqueued or connected.
BridgeInit ==
    /\ queue = <<>>
    /\ last_hue = Sentinel[1]
    /\ last_saturation = Sentinel[2]
    /\ last_brightness = Sentinel[3]
    /\ command_tx = "alive"
    /\ appliedAtDrop = 0
    /\ ppc = "idle"
    /\ pending = NoCommand
    /\ ncalls = 0
    /\ wpc = "connect"
    /\ cpc = "idle"
    /\ cur = NoCommand
    /\ session = "Disconnected"
    /\ result = "none"
    /\ startup = "pending"
    /\ writes = <<>>
    /\ connects = <<>>
    /\ inflight = 0
    /\ enq = <<>>
    /\ applied = <<>>
    /\ lastApplied = <<U16_MAX, U16_MAX, U16_MAX>>

Init ==
    /\ bridge \in {"vst", "app"}
    /\ BridgeInit
    /\ codec_in = NoInput
    /\ codec_out = NoOutput

\* --------------------------------------------------- plugin: producer side
\* Variant: process() enqueues on every call, changed or not.
ChangedAlways(hue, saturation, brightness) == TRUE

\* The comparison process() makes against the last enqueued triple.
Changed(hue, saturation, brightness) ==
    \/ hue # last_hue
    \/ saturation # last_saturation
    \/ brightness # last_brightness

\* Whether crossbeam's send() has to wait: the bounded channel is full.
MustWait == Len(queue) >= Capacity

\* BulbVst::process.  command_tx.send() on a bounded channel completes at
\* once when there is room and otherwise blocks the caller until there is.
Process(hp, sp, bp, immediate) ==
    LET hue == ParamToU16(hp, HUE_SCALE)
        saturation == ParamToU16(sp, SV_SCALE)
        brightness == ParamToU16(bp, SV_SCALE)
        command == <<hue, saturation, brightness, immediate>>
    IN  /\ bridge = "vst"
        /\ command_tx = "alive"
        /\ ppc = "idle"
        /\ ncalls < MaxCalls
        /\ ncalls' = ncalls + 1
        /\ IF Changed(hue, saturation, brightness)
           THEN /\ last_hue' = hue
                /\ last_saturation' = saturation
                /\ last_brightness' = brightness
                /\ IF MustWait
                   THEN /\ ppc' = "send"
                        /\ pending' = command
                        /\ UNCHANGED <<queue, enq>>
                   ELSE /\ queue' = Append(queue, command)
                        /\ enq' = Append(enq, command)
                        /\ UNCHANGED <<ppc, pending>>
           ELSE UNCHANGED <<last_hue, last_saturation, last_brightness,
                            ppc, pending, queue, enq>>
        /\ UNCHANGED <<staticVars, command_tx, appliedAtDrop, controllerVars>>

\* The blocked send() of process() completes once the worker has made room.
ProcessSendCompletes ==
    /\ bridge = "vst"
    /\ ppc = "send"
    /\ ~MustWait
    /\ queue' = Append(queue, pending)
    /\ enq' = Append(enq, pending)
    /\ ppc' = "idle"
    /\ pending' = NoCommand
    /\ UNCHANGED <<staticVars, last_hue, last_saturation, last_brightness,
                   ncalls, command_tx, appliedAtDrop, controllerVars>>

\* The host drops the BulbVst instance: its Sender goes with it, the
\* JoinHandle is dropped without a join, so the worker thread runs on.
\* process() takes &mut self, so no call of it is in progress.
DropPlugin ==
    /\ bridge = "vst"
    /\ command_tx = "alive"
    /\ ppc = "idle"
    /\ command_tx' = "dropped"
    /\ appliedAtDrop' = Len(applied)
    /\ UNCHANGED <<staticVars, queue, enq, last_hue, last_saturation,
                   last_brightness, ppc, pending, ncalls, controllerVars>>

\* ------------------------------------------------------ app: producer side
\* Whether the MIDI listener is connected (main got past line 25).
ListenerStarted == wpc \in {"recv", "set_color"}

\* The callback of start_midi_listener; the channel is unbounded.
MidiCallback(status, controller, value) ==
    /\ bridge = "app"
    /\ ListenerStarted
    /\ ncalls < MaxCalls
    /\ ncalls' = ncalls + 1
    /\ IF status = CC_STATUS /\ controller = MOD_WHEEL
       THEN /\ queue' = Append(queue, midi_to_hue(value))
            /\ enq' = Append(enq, midi_to_hue(value))
       ELSE UNCHANGED <<queue, enq>>
    /\ UNCHANGED <<staticVars, last_hue, last_saturation, last_brightness,
                   ppc, pending, command_tx, appliedAtDrop, controllerVars>>

\* ----------------------------------------------------------- the consumer
\* The command the worker builds from a queue item.
WorkerCommand(item) ==
    IF bridge = "app" THEN <<item, APP_SATURATION, APP_BRIGHTNESS, TRUE>>
    ELSE item

\* Variant: recv() hands out the newest item instead of the oldest.
RecvNewest(q) == [item |-> q[Len(q)], rest |-> SubSeq(q, 1, Len(q) - 1)]

\* recv() on a non-empty channel: the oldest item, removed from the channel.
Recv(q) == [item |-> Head(q), rest |-> Tail(q)]

\* Variant: the worker takes the next command without awaiting set_color.
WorkerReadyNoAwait == wpc \in {"recv", "set_color"}

\* The worker is at recv(): its previous set_color(..).await has returned.
WorkerReady == wpc = "recv"

\* Variant: the receive loop ends at the first error of set_color.
AfterCallFatal(r) == IF r = "Ok" THEN "recv" ELSE "exited"

\* Where the caller of set_color continues when it returns r.
AfterCall(r) ==
    IF wpc = "init" THEN (IF r = "Ok" THEN "recv" ELSE "exited") ELSE "recv"

\* Entry of set_color: the property map is built and send_commands starts.
CallSetColor(cmd) ==
    /\ cur' = cmd
    /\ cpc' = "write1"
    /\ writes' = <<>>
    /\ connects' = <<>>
    /\ inflight' = inflight + 1

\* send_commands returns r to its caller.
Return(r) ==
    /\ cpc' = "idle"
    /\ result' = r
    /\ inflight' = inflight - 1
    /\ wpc' = AfterCall(r)
    /\ lastApplied' = IF r = "Ok" THEN Triple(cur) ELSE lastApplied

\* Variant: the plugin's worker retries connect() until it succeeds.
AfterStartupRetry(ok) ==
    IF bridge = "vst" THEN (IF ok THEN "recv" ELSE "connect")
    ELSE IF ok THEN "init" ELSE "exited"

\* Where the owner of the controller continues after the startup connect().
AfterStartup(ok) ==
    IF bridge = "vst" THEN "recv"
    ELSE IF ok THEN "init" ELSE "exited"

\* The startup connect(): bulb_controller_thread logs its outcome and goes
\* on to the receive loop; main() of the app returns the error, and on
\* success sets the initial colour before anything else.  That call,
\* set_color(120, 1000, 1000), names no `immediate` argument, so the flag
\* it sends is left open here.
StartupConnect(ok) ==
    /\ wpc = "connect"
    /\ session' = IF ok THEN "Connected" ELSE "Disconnected"
    /\ startup' = IF ok THEN "ok" ELSE "failed"
    /\ wpc' = AfterStartup(ok)
    /\ IF AfterStartup(ok) = "init"
       THEN \E immediate \in BOOLEAN :
                CallSetColor(<<INIT_HUE, APP_SATURATION, APP_BRIGHTNESS,
                               immediate>>)
       ELSE UNCHANGED <<cur, cpc, writes, connects, inflight>>
    /\ UNCHANGED <<staticVars, queue, enq, producerVars, result, applied,
                   lastApplied>>

\* One iteration of the receive loop up to the first await of set_color.
WorkerRecv ==
    /\ WorkerReady
    /\ queue # <<>>
    /\ queue' = Recv(queue).rest
    /\ wpc' = "set_color"
    /\ applied' = Append(applied, WorkerCommand(Recv(queue).item))
    /\ CallSetColor(WorkerCommand(Recv(queue).item))
    /\ UNCHANGED <<staticVars, enq, producerVars, session, result, startup,
                   lastApplied>>

\* Variant: recv() fails as soon as the Sender is gone, queued items or not.
RecvFailsOnDisconnect == command_tx = "dropped"

\* Variant: recv() fails whenever the channel is empty, as try_recv would.
RecvFailsWhenEmpty == queue = <<>>

\* recv() returns Err: the channel is empty and every Sender is dropped.
RecvFails == queue = <<>> /\ command_tx = "dropped"

\* `while let Ok(command) = command_rx.recv()` ends; the thread returns.
WorkerExit ==
    /\ bridge = "vst"
    /\ WorkerReady
    /\ RecvFails
    /\ wpc' = "exited"
    /\ UNCHANGED <<staticVars, queue, enq, producerVars, cpc, cur, session,
                   result, startup, writes, connects, inflight, applied,
                   lastApplied>>

WriteRecord(ok) ==
    [dps |-> set_color_dps(cur[1], cur[2], cur[3], cur[4]),
     ok |-> ok, pre |-> session]

\* send_commands, first self.device.set(..): Ok returns Ok, Err reconnects.
SendWrite1(ok) ==
    /\ cpc = "write1"
    /\ ok => session = "Connected"
    /\ writes' = Append(writes, WriteRecord(ok))
    /\ IF ok
       THEN /\ Return("Ok")
            /\ UNCHANGED session
       ELSE /\ cpc' = "connect"
            /\ session' = "Disconnected"
            /\ UNCHANGED <<wpc, result, inflight, lastApplied>>
    /\ UNCHANGED <<staticVars, queue, enq, producerVars, cur, startup, connects,
                   applied>>

\* Variant: the error of the reconnect is ignored and the retry goes ahead.
SendReconnectIgnoresError(ok) ==
    /\ cpc = "connect"
    /\ connects' = Append(connects, ok)
    /\ cpc' = "write2"
    /\ session' = IF ok THEN "Connected" ELSE "Disconnected"
    /\ UNCHANGED <<wpc, result, inflight, lastApplied>>
    /\ UNCHANGED <<staticVars, queue, enq, producerVars, cur, startup, writes,
                   applied>>

\* send_commands, self.connect().await? : Err is returned to the caller.
SendReconnect(ok) ==
    /\ cpc = "connect"
    /\ connects' = Append(connects, ok)
    /\ IF ok
       THEN /\ cpc' = "write2"
            /\ session' = "Connected"
            /\ UNCHANGED <<wpc, result, inflight, lastApplied>>
       ELSE /\ Return("DeviceUnreachable")
            /\ session' = "Disconnected"
    /\ UNCHANGED <<staticVars, queue, enq, producerVars, cur, startup, writes,
                   applied>>

\* Variant: send_commands returns the error of the first write even when
\* the retry went through.
RetryResultFirstError(ok) == "ConnectionLost"

\* Variant: the error of the retry is swallowed.
RetryResultSwallowed(ok) == "Ok"

\* What send_commands returns after the second write: `?` passes its error
\* on, otherwise Ok(()).
RetryResult(ok) == IF ok THEN "Ok" ELSE "ConnectionLost"

\* send_commands, second self.device.set(..).await? : the only retry.
SendWrite2(ok) ==
    /\ cpc = "write2"
    /\ ok => session = "Connected"
    /\ writes' = Append(writes, WriteRecord(ok))
    /\ Return(RetryResult(ok))
    /\ session' = IF ok THEN session ELSE "Disconnected"
    /\ UNCHANGED <<staticVars, queue, enq, producerVars, cur, startup, connects,
                   applied>>

\* ------------------------------------------------------------------ system
Producer ==
    \/ \E hp \in HueParams, sp \in SaturationParams, bp \in BrightnessParams,
          immediate \in BOOLEAN : Process(hp, sp, bp, immediate)
    \/ ProcessSendCompletes
    \/ DropPlugin
    \/ \E status \in MidiStatuses, controller \in MidiControllers,
          value \in MidiValues : MidiCallback(status, controller, value)

Consumer ==
    \/ \E ok \in BOOLEAN : StartupConnect(ok)
    \/ WorkerRecv
    \/ WorkerExit
    \/ \E ok \in BOOLEAN : SendWrite1(ok)
    \/ \E ok \in BOOLEAN : SendReconnect(ok)
    \/ \E ok \in BOOLEAN : SendWrite2(ok)

Next == Producer \/ Consumer

Spec == Init /\ [][Next]_vars

\* ------------------------------------------------- the codec on its own
CodecInputs ==
    [kind : {"set_color"}, h : CodecHues, s : CodecSV, v : CodecSV,
     immediate : BOOLEAN, midi_value : {0}]
    \cup
    [kind : {"midi_to_hue"}, h : {0}, s : {0}, v : {0}, immediate : {FALSE},
     midi_value : CodecMidi]

CodecInit ==
    /\ bridge = "app"
    /\ BridgeInit
    /\ codec_in \in CodecInputs
    /\ codec_out = NoOutput

\* set_color up to its call of send_commands: no argument is checked, the
\* colour string is formatted and handed on.
SetColorEncode ==
    /\ codec_in.kind = "set_color"
    /\ codec_out.status = "none"
    /\ codec_out' =
           [status |-> "Ok",
            text |-> set_color_dps(codec_in.h, codec_in.s, codec_in.v,
                                   codec_in.immediate).p28,
            hue |-> 0]
    /\ UNCHANGED <<bridge, codec_in, queue, enq, producerVars,
                   controllerVars>>

\* Whether `midi_value as u16 * 360` overflows u16.
ProductOverflows(midi_value) == midi_value * HUE_SCALE > U16_MAX

\* midi_to_hue: on overflow of the u16 product a build with overflow
\* checks panics and a build without them wraps.
MidiToHueCall ==
    /\ codec_in.kind = "midi_to_hue"
    /\ codec_out.status = "none"
    /\ \/ codec_out' = [status |-> "Ok", text |-> <<>>,
                        hue |-> midi_to_hue(codec_in.midi_value)]
       \/ /\ ProductOverflows(codec_in.midi_value)
          /\ codec_out' = [status |-> "panic", text |-> <<>>, hue |-> 0]
    /\ UNCHANGED <<bridge, codec_in, queue, enq, producerVars,
                   controllerVars>>

CodecNext == SetColorEncode \/ MidiToHueCall

CodecSpec == CodecInit /\ [][CodecNext]_vars

\* Every transport call returns and the worker is scheduled.
FairSpec == Spec /\ WF_vars(Consumer)

TypeOK ==
    /\ bridge \in {"vst", "app"}
    /\ Len(queue) <= MaxCalls
    /\ ppc \in {"idle", "send"}
    /\ wpc \in {"connect", "init", "recv", "set_color", "exited"}
    /\ cpc \in {"idle", "write1", "connect", "write2"}
    /\ session \in {"Disconnected", "Connected"}
    /\ result \in {"none", "Ok", "ConnectionLost", "DeviceUnreachable"}
    /\ startup \in {"pending", "ok", "failed"}
    /\ inflight \in 0..1
    /\ command_tx \in {"alive", "dropped"}

\* ------------------------------------------------------------------ claims
Failed(r) == r \in {"ConnectionLost", "DeviceUnreachable"}
BothWritesFailed == Len(writes) = 2 /\ ~writes[1].ok /\ ~writes[2].ok
ProducerBlocked == IF ppc = "send" THEN 1 ELSE 0

\* C1: in the plugin bridge, an enqueue attempted while the queue is full
\* discards the new command and returns at once: after a process() call
\* made on a full queue the producer is not waiting and the queue is as it
\* was.
C1_FullQueueDropsNewest ==
    [][(bridge = "vst" /\ ncalls' # ncalls /\ Len(queue) >= Capacity)
        => (ppc' = "idle" /\ queue' = queue)]_vars

\* C2: in the plugin bridge no two consecutive calls of set_color carry
\* the same (hue, saturation, brightness) triple.
C2_NoRepeatedTriple ==
    bridge = "vst" =>
        \A i \in 1..(Len(applied) - 1) :
            Triple(applied[i]) # Triple(applied[i + 1])

\* C2 witness: set_color was called twice and some process() call was
\* suppressed (it neither enqueued nor is waiting to).
C2_Witness ==
    /\ bridge = "vst"
    /\ Len(applied) >= 2
    /\ ncalls > Len(enq) + ProducerBlocked

\* C3: the triple used for dedup is updated only after send succeeded for
\* it: with nothing queued or in flight, a process() call whose triple is
\* not the last successfully written one enqueues a command.
C3_DedupStateFollowsSuccess ==
    [][(/\ bridge = "vst"
        /\ ncalls' # ncalls
        /\ queue = <<>> /\ WorkerReady /\ ppc = "idle"
        /\ <<last_hue', last_saturation', last_brightness'>> # lastApplied)
        => Len(enq') = Len(enq) + 1]_vars

\* C4: one send_commands call makes at most two writes and at most one
\* connect(); a second write follows a failed first write and a successful
\* reconnect, and carries the same property map.
C4_AtMostOneRetry ==
    /\ Len(writes) <= 2
    /\ Len(connects) <= 1
    /\ Len(connects) = 1 => (Len(writes) >= 1 /\ ~writes[1].ok)
    /\ Len(writes) = 2 =>
           /\ ~writes[1].ok
           /\ connects = <<TRUE>>
           /\ writes[2].dps = writes[1].dps

\* C4 witness: a call that made its second write.
C4_Witness == Len(writes) = 2 /\ cpc = "idle"

\* C5: first write failed, second succeeded: send returns Ok and the
\* session is Connected.
C5_RetrySucceeds ==
    (cpc = "idle" /\ Len(writes) = 2 /\ ~writes[1].ok /\ writes[2].ok)
        => (result = "Ok" /\ session = "Connected")

\* C5 witness: a call returned after a failed first and a good second write.
C5_Witness ==
    cpc = "idle" /\ Len(writes) = 2 /\ ~writes[1].ok /\ writes[2].ok

RECURSIVE IsSubsequence(_, _)
\* s can be obtained from t by deleting elements, order kept.
IsSubsequence(s, t) ==
    IF s = <<>> THEN TRUE
    ELSE IF t = <<>> THEN FALSE
    ELSE IF Head(s) = Head(t) THEN IsSubsequence(Tail(s), Tail(t))
    ELSE IsSubsequence(s, Tail(t))

EnqueuedCommands == [i \in 1..Len(enq) |-> WorkerCommand(enq[i])]

\* C7: in both bridges the commands passed to set_color are, in order, a
\* subsequence of the commands enqueued.
C7_AppliedInEnqueueOrder == IsSubsequence(applied, EnqueuedCommands)

\* C7 witness: two different commands applied while a third waits.
C7_Witness ==
    /\ Len(applied) >= 2
    /\ applied[1] # applied[2]
    /\ queue # <<>>

\* C8: at most one set_color/send is in flight; a send starts only when
\* the previous one has returned; producer steps leave the session and the
\* controller alone.
C8_OneWriteInFlight ==
    /\ [](inflight <= 1)
    /\ [][(/\ Len(applied') > Len(applied) => cpc = "idle"
           /\ (ncalls' # ncalls \/ ppc' # ppc)
                  => UNCHANGED <<session, cpc, cur, writes, connects>>)]_vars

\* C8 witness: a send is in its retry while another command is queued.
C8_Witness == inflight = 1 /\ cpc = "write2" /\ queue # <<>>

\* C9: a failed send does not stop the worker: every enqueued command is
\* eventually dequeued.
C9_EveryCommandDequeued ==
    \A n \in 1..MaxCalls : (Len(enq) >= n) ~> (Len(applied) >= n)

\* C9 witness: after a send returned an error the worker has dequeued the
\* next command.
C9_Witness ==
    /\ Failed(result)
    /\ wpc = "set_color"
    /\ Len(applied) >= 2

\* C10 as stated: after a failed startup connect() of the plugin's worker
\* no transport write and no reconnect is attempted for any command.
C10_InertAfterFailedStartup ==
    (bridge = "vst" /\ startup = "failed")
        => (writes = <<>> /\ connects = <<>>)

\* C10 as amended: after a failed startup connect() the worker makes no
\* connection attempt of its own, but it stays in its loop and passes
\* every command it dequeues to set_color; the session changes only inside
\* such a call.
C10_NoReconnectOutsideSend ==
    [][(bridge = "vst" /\ startup = "failed")
        => /\ wpc' = "exited" => (queue = <<>> /\ command_tx = "dropped")
           /\ startup' = "failed"
           /\ Len(queue') < Len(queue)
                  => (cpc' = "write1" /\ Len(applied') = Len(applied) + 1)
           /\ session' # session => cpc # "idle"]_vars

\* C10 witness: the startup connect() failed and a command's send went
\* through its write, reconnect and retry.
C10_Witness ==
    /\ bridge = "vst"
    /\ startup = "failed"
    /\ Len(writes) = 2
    /\ connects = <<TRUE>>

\* C11 as stated: on shutdown of the plugin the worker stops pulling new
\* items, so no set_color starts after the Sender was dropped.
C11_NothingAppliedAfterDrop ==
    (bridge = "vst" /\ command_tx = "dropped")
        => Len(applied) = appliedAtDrop

\* C11 as amended: dropping the Sender closes the channel to new commands
\* only; the worker still receives what was queued, passes each command to
\* set_color in order, and has applied every enqueued command when it
\* leaves its loop.
C11_QueueDrainedAfterDrop ==
    /\ [](bridge = "vst" /\ wpc = "exited" => applied = enq)
    /\ [][command_tx = "dropped" => enq' = enq]_vars

\* C11 witness: the worker left its loop after applying commands that were
\* still queued when the Sender was dropped.
C11_Witness ==
    /\ bridge = "vst"
    /\ wpc = "exited"
    /\ Len(applied) > appliedAtDrop

\* C12: in the MIDI app no two consecutive calls of set_color carry the
\* same hue: of two consecutive events with the same hue only one is sent.
C12_AppNoRepeatedHue ==
    bridge = "app" =>
        \A i \in 1..(Len(applied) - 1) :
            Triple(applied[i]) # Triple(applied[i + 1])

\* C13: before the first process() call every triple the parameters can
\* produce differs from the stored last_* fields, and the first process()
\* call enqueues its command.
C13_FirstCommandEnqueued ==
    /\ [](ncalls = 0 =>
             \A h \in 0..HUE_MAX, s \in CodecSV \cap (0..SV_MAX),
                v \in CodecSV \cap (0..SV_MAX) : Changed(h, s, v))
    /\ [][(bridge = "vst" /\ ncalls = 0 /\ ncalls' = 1)
            => (/\ Len(enq') = 1
                /\ Triple(enq'[1])
                       = <<last_hue', last_saturation', last_brightness'>>)]_vars

\* C13 witness: the first process() call has enqueued its command.
C13_Witness == bridge = "vst" /\ ncalls = 1 /\ Len(enq) = 1

InRange(in) == in.h <= HUE_MAX /\ in.s <= SV_MAX /\ in.v <= SV_MAX
Encoded == codec_in.kind = "set_color" /\ codec_out.status # "none"
Converted == codec_in.kind = "midi_to_hue" /\ codec_out.status # "none"

\* C14 as stated: for in-range hue, saturation and brightness and either
\* flag the colour string under "28" is exactly 20 characters long.
C14_EncodedLength20 ==
    (Encoded /\ InRange(codec_in)) => Len(codec_out.text) = 20

\* C14 as amended: that colour string is exactly 21 characters long (one
\* flag character, three fields of 4 hex digits, 8 zeros).
C14_EncodedLength21 ==
    (Encoded /\ InRange(codec_in)) => Len(codec_out.text) = 21

\* C14 witness: the largest in-range triple was encoded.
C14_Witness ==
    /\ Encoded
    /\ codec_in.h = HUE_MAX /\ codec_in.s = SV_MAX /\ codec_in.v = SV_MAX

HexDigitValue(c) == CHOOSE d \in 0..15 : HexChars[d + 1] = c

RECURSIVE HexValue(_)
\* The number a string of hex digits denotes.
HexValue(t) ==
    IF t = <<>> THEN 0
    ELSE 16 * HexValue(SubSeq(t, 1, Len(t) - 1)) + HexDigitValue(t[Len(t)])

\* C15: the colour string is the flag character ('0' immediate, '1' not),
\* then h, s, v as 4 hex digits each, then 8 '0'; each field decodes to
\* the value that was encoded.
C15_EncodedLayout ==
    (Encoded /\ InRange(codec_in)) =>
        LET t == codec_out.text
        IN  /\ Len(t) = 1 + 4 + 4 + 4 + 8
            /\ t[1] = (IF codec_in.immediate THEN "0" ELSE "1")
            /\ \A i \in 2..13 : \E d \in 1..16 : t[i] = HexChars[d]
            /\ HexValue(SubSeq(t, 2, 5)) = codec_in.h
            /\ HexValue(SubSeq(t, 6, 9)) = codec_in.s
            /\ HexValue(SubSeq(t, 10, 13)) = codec_in.v
            /\ \A i \in 14..Len(t) : t[i] = "0"

\* C15 witness: a non-immediate command with three different field values
\* was encoded.
C15_Witness ==
    /\ Encoded
    /\ ~codec_in.immediate
    /\ codec_in.h = HUE_MAX /\ codec_in.s = 255 /\ codec_in.v = 16

\* C16: for midi values 0..127, midi_to_hue is floor(v * 360 / 127), lies
\* in 0..360, does not decrease with v, and maps 0, 64, 127 to 0, 181, 360.
C16_MidiToHue ==
    (Converted /\ codec_in.midi_value <= MIDI_MAX) =>
        LET v == codec_in.midi_value
        IN  /\ codec_out.status = "Ok"
            /\ codec_out.hue = (v * 360) \div 127
            /\ codec_out.hue \in 0..HUE_MAX
            /\ \A w \in 0..v : midi_to_hue(w) <= codec_out.hue
            /\ v = 0 => codec_out.hue = 0
            /\ v = 64 => codec_out.hue = 181
            /\ v = 127 => codec_out.hue = 360

\* C16 witness: the top of the MIDI range was converted.
C16_Witness ==
    Converted /\ codec_in.midi_value = MIDI_MAX /\ codec_out.hue = HUE_MAX

\* C17: a command with hue above 360, or saturation or brightness above
\* 1000, is rejected by set_color: no colour string is built.
C17_OutOfRangeRejected ==
    (Encoded /\ ~InRange(codec_in)) =>
        (codec_out.status = "InvalidInput" /\ codec_out.text = <<>>)

\* C18: first write failed and the reconnect failed: send returns the
\* connect error after exactly one write and one connect.
C18_ReconnectFails ==
    (Len(connects) >= 1 /\ ~connects[1]) =>
        /\ cpc = "idle"
        /\ result = "DeviceUnreachable"
        /\ Len(connects) = 1
        /\ Len(writes) = 1 /\ ~writes[1].ok

\* C18 witness: a send of the worker's returned after a failed reconnect.
C18_Witness ==
    /\ connects = <<FALSE>>
    /\ cpc = "idle"
    /\ Len(applied) >= 1

\* C19: once the plugin's Sender is dropped the worker eventually leaves
\* its loop; it leaves only with the channel empty and the Sender dropped.
C19_WorkerTerminates ==
    /\ (bridge = "vst" /\ command_tx = "dropped") ~> (wpc = "exited")
    /\ []((bridge = "vst" /\ wpc = "exited")
              => (queue = <<>> /\ command_tx = "dropped"))

\* C19 witness: the worker has left its loop with every command applied.
C19_Witness ==
    /\ bridge = "vst"
    /\ wpc = "exited"
    /\ command_tx = "dropped"
    /\ Len(applied) >= 2

\* C20: for every u8 argument midi_to_hue returns floor(v * 360 / 127)
\* without overflow.
C20_NoOverflowOnU8 ==
    Converted =>
        /\ codec_out.status = "Ok"
        /\ codec_out.hue = (codec_in.midi_value * 360) \div 127
====
